---- MODULE Spec2Model ----
(***************************************************************************)
(* Booking API (src/main.py, src/schemas.py): clients, staff, services and *)
(* appointments kept in a document store.  Request handlers run            *)
(* concurrently, one worker per request; a store call is atomic and a      *)
(* handler is a sequence of store calls.  create_appointment is one action *)
(* per store call up to its insert; a handler's final read-back of the     *)
(* document it has just written belongs to the action of the write.        *)
(* now is the clock read by datetime.utcnow(); it advances at every read.  *)
(*                                                                         *)
(* Times are whole minutes.  Identifier strings are naturals: 0 is a       *)
(* string that is not 24 hex digits, 2k-1 is the lower-case hex spelling   *)
(* of object id k and 2k its upper-case spelling (bson's ObjectId accepts  *)
(* both and str() gives the lower-case one).  Object ids are numbered per  *)
(* collection; an id of another collection is an absent id here.           *)
(* Optional values are sequences: <<>> is None, <<v>> is the value v.      *)
(* req[p] holds the fields of the request the handler has read so far: a   *)
(* field nobody has looked at yet is chosen when it is first read.         *)
(***************************************************************************)
EXTENDS Integers, Sequences, FiniteSets, TLC

\* ---------------------------------------------------------------- bounds
MaxAppointments == 2
MaxClock == 2

\* ------------------------------------------------------ program constants
MinDuration == 5
MaxDuration == 480
DefaultDuration == 60

Procs == {"w1", "w2"}

\* the names the salon's records are created with
ClientNames == {"Cleo"}
StaffNames == {"Ava"}
ServiceNames == {"Gel Manicure"}

None == <<>>
Some(v) == <<v>>

Statuses == {"booked", "canceled", "completed"}

\* ------------------------------------------------------------ input sets
\* identifier strings: a malformed one, the lower-case spelling of every
\* object id the store can issue and of one it never issues; for staff_id,
\* which is also compared as a string, the upper-case spelling of the first
LowerCase(n) == {2 * o - 1 : o \in 1 .. (n + 1)}

ClientIdInputs == {0} \cup LowerCase(Cardinality(ClientNames))
ServiceIdInputs == {0} \cup LowerCase(Cardinality(ServiceNames))
StaffIdInputs == {0, 2} \cup LowerCase(Cardinality(StaffNames))
AppointmentIdInputs == {0} \cup LowerCase(MaxAppointments)
\* start times on the grid of the shortest service
StartTimeInputs == {0, MinDuration}
DurationInputs == {MinDuration - 1, MinDuration, 2 * MinDuration, MaxDuration + 1}
CreateNotesInputs == {Some("gel")}
UpdateNotesInputs == {None, Some("")}
StatusInputs == {None, Some("booked"), Some("canceled"), Some("completed"), Some("done")}
\* the request bodies of update_appointment_status: every status without
\* notes, and notes without a status and with one
UpdateBodies ==
    {b \in [status : StatusInputs, notes : UpdateNotesInputs] :
        b.notes = None \/ b.status \in {None, Some("booked")}}

MinutesPerDay == 24 * 60

\* date strings of the list query: the text names a day (counted from the day
\* of time 0) in the layout it is written in
DateInputs == {None, Some([layout |-> "%d/%m/%Y", day |-> 0]),
               Some([layout |-> "%Y-%m-%d", day |-> 0 - 1]),
               Some([layout |-> "%Y-%m-%d", day |-> 0])}

StaffFilterInputs == {None, Some(1)}

\* exclude_id of has_overlap: absent, or the lower-case spelling of an
\* appointment identifier, stored or not
ExcludeIdInputs == {None} \cup {Some(a) : a \in LowerCase(MaxAppointments)}

VARIABLES db, now, pc, req, local, ret, before

vars == <<db, now, pc, req, local, ret, before>>

\* ------------------------------------------------------------ identifiers
\* bson.ObjectId(s): raises InvalidId unless s is 24 hex digits, of either case
ObjectIdValid(s) == s # 0

ObjectId(s) == (s + 1) \div 2

\* str(ObjectId): the lower-case hex spelling
str(o) == 2 * o - 1

\* ------------------------------------------------------------------ store
find_one(collection, o) ==
    IF o \in DOMAIN db[collection]
    THEN Some([k \in DOMAIN db[collection][o] \cup {"_id"} |->
                 IF k = "_id" THEN o ELSE db[collection][o][k]])
    ELSE None

\* the store generates the identifier of an inserted document
NewId(collection) == Cardinality(DOMAIN db[collection]) + 1

insert_one(collection, doc) ==
    [db EXCEPT ![collection] =
        [o \in DOMAIN db[collection] \cup {NewId(collection)} |->
            IF o \in DOMAIN db[collection] THEN db[collection][o] ELSE doc]]

\* update_one({"_id": o}, {"$set": updates}); updates is a record
update_one(collection, o, updates) ==
    IF o \in DOMAIN db[collection]
    THEN [db EXCEPT ![collection][o] =
            [k \in DOMAIN @ \cup DOMAIN updates |->
                IF k \in DOMAIN updates THEN updates[k] ELSE @[k]]]
    ELSE db

\* a document matches a query: a range on a datetime field, equality elsewhere
matches(doc, filt) ==
    \A k \in DOMAIN filt :
        IF k \in {"start_time", "end_time"}
        THEN doc[k] >= filt[k].gte /\ doc[k] < filt[k].lt
        ELSE doc[k] = filt[k]

\* find(filt): the identifiers of the matching documents
find(collection, filt) ==
    {o \in DOMAIN db[collection] : matches(db[collection][o], filt)}

\* cursor.sort(key, 1): the orders the cursor may deliver the documents in,
\* ascending by key; the order of documents with equal keys is the store's
sort(collection, found, key) ==
    {s \in [1 .. Cardinality(found) -> found] :
        /\ \A i, j \in DOMAIN s : i # j => s[i] # s[j]
        /\ \A i, j \in DOMAIN s :
            i < j => db[collection][s[i]][key] <= db[collection][s[j]][key]}

\* ---------------------------------------------------------------- helpers
\* datetime.isoformat(): day, hour and minute of a time in minutes
isoformat(t) == <<t \div (24 * 60), (t % (24 * 60)) \div 60, t % 60>>

\* datetime.strptime(date_string, format): midnight of the day, or ValueError
\* (None) when the text is not in the layout
strptime(date_string, format) ==
    IF date_string.layout = format
    THEN Some(date_string.day * MinutesPerDay)
    ELSE None

DatetimeFields == {"start_time", "end_time"}

serialize_doc(doc) ==
    [k \in (DOMAIN doc \ {"_id"}) \cup {"id"} |->
        IF k = "id" THEN str(doc["_id"])
        ELSE IF k \in DatetimeFields THEN isoformat(doc[k])
        ELSE IF k = "updated_at" /\ doc[k] # None THEN Some(isoformat(doc[k][1]))
        ELSE doc[k]]

HTTPException(code, msg) == [kind |-> "HTTPException", status_code |-> code, detail |-> msg]

Response(code, body) == [kind |-> "response", status_code |-> code, body |-> body]

\* changed: ObjectId(_id) is taken outside the try block
ensure_exists_unguarded(collection, _id, label) ==
    IF ~ObjectIdValid(_id)
    THEN [raised |-> TRUE, exc |-> [kind |-> "InvalidId", status_code |-> 500]]
    ELSE LET doc == find_one(collection, ObjectId(_id))
         IN  IF doc = None
             THEN [raised |-> TRUE, exc |-> HTTPException(404, <<label, "not found">>)]
             ELSE [raised |-> FALSE, doc |-> doc[1]]

\* changed: the except branch answers a malformed id with 400
ensure_exists_bad_request(collection, _id, label) ==
    IF ~ObjectIdValid(_id)
    THEN [raised |-> TRUE, exc |-> HTTPException(400, <<label, "id is invalid">>)]
    ELSE LET doc == find_one(collection, ObjectId(_id))
         IN  IF doc = None
             THEN [raised |-> TRUE, exc |-> HTTPException(404, <<label, "not found">>)]
             ELSE [raised |-> FALSE, doc |-> doc[1]]

\* the result of ensure_exists: the document, or the exception it raises
ensure_exists(collection, _id, label) ==
    LET doc == IF ObjectIdValid(_id) THEN find_one(collection, ObjectId(_id)) ELSE None
    IN  IF doc = None
        THEN [raised |-> TRUE, exc |-> HTTPException(404, <<label, "not found">>)]
        ELSE [raised |-> FALSE, doc |-> doc[1]]

\* changed: the service's duration is ignored for the default one
compute_end_default(start, duration_minutes) == start + DefaultDuration

\* changed: the duration is subtracted from the start
compute_end_before_start(start, duration_minutes) == start - duration_minutes

compute_end(start, duration_minutes) == start + duration_minutes

\* changed: the staff_id filter is dropped from the query
has_overlap_any_staff(staff_id, start, end, exclude_id) ==
    Cardinality({o \in DOMAIN db.appointment :
        /\ db.appointment[o].status \in {"booked", "completed"}
        /\ db.appointment[o].start_time < end
        /\ db.appointment[o].end_time > start
        /\ (exclude_id # None => o # ObjectId(exclude_id[1]))}) > 0

\* changed: the interval bounds are compared inclusively ($lte, $gte)
has_overlap_inclusive(staff_id, start, end, exclude_id) ==
    Cardinality({o \in DOMAIN db.appointment :
        /\ db.appointment[o].staff_id = staff_id
        /\ db.appointment[o].status \in {"booked", "completed"}
        /\ db.appointment[o].start_time <= end
        /\ db.appointment[o].end_time >= start
        /\ (exclude_id # None => o # ObjectId(exclude_id[1]))}) > 0

\* changed: the status filter is dropped from the query
has_overlap_any_status(staff_id, start, end, exclude_id) ==
    Cardinality({o \in DOMAIN db.appointment :
        /\ db.appointment[o].staff_id = staff_id
        /\ db.appointment[o].start_time < end
        /\ db.appointment[o].end_time > start
        /\ (exclude_id # None => o # ObjectId(exclude_id[1]))}) > 0

\* exclude_id is optional; ObjectId(exclude_id) is taken only when it is given
\* changed: only booked appointments are counted, completed ones are not
has_overlap_booked_only(staff_id, start, end, exclude_id) ==
    Cardinality({o \in DOMAIN db.appointment :
        /\ db.appointment[o].staff_id = staff_id
        /\ db.appointment[o].status \in {"booked"}
        /\ db.appointment[o].start_time < end
        /\ db.appointment[o].end_time > start
        /\ (exclude_id # None => o # ObjectId(exclude_id[1]))}) > 0

\* changed: exclude_id is never added to the query
has_overlap_without_exclude(staff_id, start, end, exclude_id) ==
    Cardinality({o \in DOMAIN db.appointment :
        /\ db.appointment[o].staff_id = staff_id
        /\ db.appointment[o].status \in {"booked", "completed"}
        /\ db.appointment[o].start_time < end
        /\ db.appointment[o].end_time > start}) > 0

has_overlap(staff_id, start, end, exclude_id) ==
    Cardinality({o \in DOMAIN db.appointment :
        /\ db.appointment[o].staff_id = staff_id
        /\ db.appointment[o].status \in {"booked", "completed"}
        /\ db.appointment[o].start_time < end
        /\ db.appointment[o].end_time > start
        /\ (exclude_id # None => o # ObjectId(exclude_id[1]))}) > 0

\* ------------------------------------------------------------------ state
NoReq == [op |-> "none"]

\* the request record r with field k read as v
Put(r, k, v) == [x \in DOMAIN r \cup {k} |-> IF x = k THEN v ELSE r[x]]
NoLocal == [end_time |-> 0, new_id |-> 0]
NoRet == [kind |-> "none"]

Init ==
    /\ db = [client |-> <<>>, staff |-> <<>>, service |-> <<>>, appointment |-> <<>>]
    /\ now = 0
    /\ pc = [p \in Procs |-> "idle"]
    /\ req = [p \in Procs |-> NoReq]
    /\ local = [p \in Procs |-> NoLocal]
    /\ ret = [p \in Procs |-> NoRet]
    /\ before = [p \in Procs |-> <<>>]

\* history: the appointment collection as the request of worker p arrives
Arrive(p) == before' = [before EXCEPT ![p] = db.appointment]

\* a handler has returned or raised: the response is on its way
Finish(p, r) ==
    /\ pc' = [pc EXCEPT ![p] = "done"]
    /\ ret' = [ret EXCEPT ![p] = r]

\* the response leaves; the worker is free for the next request
respond(p) ==
    /\ pc[p] = "done"
    /\ pc' = [pc EXCEPT ![p] = "idle"]
    /\ req' = [req EXCEPT ![p] = NoReq]
    /\ local' = [local EXCEPT ![p] = NoLocal]
    /\ ret' = [ret EXCEPT ![p] = NoRet]
    /\ before' = [before EXCEPT ![p] = <<>>]
    /\ UNCHANGED <<db, now>>

\* ------------------------------------------------- clients, staff, services
create_client(p) ==
    /\ pc[p] = "idle"
    /\ \E name \in ClientNames \ {db.client[o].name : o \in DOMAIN db.client} :
        LET doc == [name |-> name]
        IN  /\ db' = insert_one("client", doc)
            /\ req' = [req EXCEPT ![p] = [op |-> "create_client", name |-> name]]
            /\ Finish(p, Response(201, [id |-> str(NewId("client")), name |-> name]))
    /\ Arrive(p)
    /\ UNCHANGED <<now, local>>

create_staff(p) ==
    /\ pc[p] = "idle"
    /\ \E name \in StaffNames \ {db.staff[o].name : o \in DOMAIN db.staff} :
        LET doc == [name |-> name, active |-> TRUE]
        IN  /\ db' = insert_one("staff", doc)
            /\ req' = [req EXCEPT ![p] = [op |-> "create_staff", name |-> name]]
            /\ Finish(p, Response(201, [id |-> str(NewId("staff")), name |-> name,
                                        active |-> TRUE]))
    /\ Arrive(p)
    /\ UNCHANGED <<now, local>>

\* Service.duration_minutes: Field(..., ge=5, le=480)
ServiceValid(duration_minutes) ==
    duration_minutes >= MinDuration /\ duration_minutes <= MaxDuration

create_service(p) ==
    /\ pc[p] = "idle"
    /\ \E name \in ServiceNames \ {db.service[o].name : o \in DOMAIN db.service},
          d \in DurationInputs :
        /\ req' = [req EXCEPT ![p] = [op |-> "create_service", name |-> name,
                                      duration_minutes |-> d]]
        /\ IF ~ServiceValid(d)
           THEN /\ Finish(p, [kind |-> "ValidationError", status_code |-> 422])
                /\ UNCHANGED db
           ELSE LET doc == [name |-> name, duration_minutes |-> d, active |-> TRUE]
                IN  /\ db' = insert_one("service", doc)
                    /\ Finish(p, Response(201, [id |-> str(NewId("service")),
                                                name |-> name, duration_minutes |-> d,
                                                active |-> TRUE]))
    /\ Arrive(p)
    /\ UNCHANGED <<now, local>>

\* ------------------------------------------------------ create_appointment
\* the request arrives and the client is looked up
create_appointment_client(p) ==
    /\ pc[p] = "idle"
    /\ \E c \in ClientIdInputs :
        LET payload == [op |-> "create_appointment", client_id |-> c]
            client == ensure_exists("client", payload.client_id, "Client")
        IN  /\ req' = [req EXCEPT ![p] = payload]
            /\ IF client.raised
               THEN Finish(p, client.exc)
               ELSE /\ pc' = [pc EXCEPT ![p] = "ca_staff"]
                    /\ UNCHANGED ret
    /\ Arrive(p)
    /\ UNCHANGED <<db, now, local>>

create_appointment_staff(p) ==
    /\ pc[p] = "ca_staff"
    /\ \E s \in StaffIdInputs :
        LET payload == Put(req[p], "staff_id", s)
            staff == ensure_exists("staff", payload.staff_id, "Staff")
        IN  /\ req' = [req EXCEPT ![p] = payload]
            /\ IF staff.raised
               THEN Finish(p, staff.exc)
               ELSE /\ pc' = [pc EXCEPT ![p] = "ca_service"]
                    /\ UNCHANGED ret
    /\ UNCHANGED <<db, now, local, before>>

\* the service is looked up and end_time computed from its duration
create_appointment_service(p) ==
    /\ pc[p] = "ca_service"
    /\ \E v \in ServiceIdInputs :
        LET withService == Put(req[p], "service_id", v)
            service == ensure_exists("service", withService.service_id, "Service")
        IN  IF service.raised
            THEN /\ req' = [req EXCEPT ![p] = withService]
                 /\ Finish(p, service.exc)
                 /\ UNCHANGED local
            ELSE \E t \in StartTimeInputs :
                 LET payload == Put(withService, "start_time", t)
                     duration == IF "duration_minutes" \in DOMAIN service.doc
                                 THEN service.doc.duration_minutes
                                 ELSE DefaultDuration
                     start_time == payload.start_time
                     end_time == compute_end(start_time, duration)
                 IN  /\ req' = [req EXCEPT ![p] = payload]
                     /\ local' = [local EXCEPT ![p].end_time = end_time]
                     /\ pc' = [pc EXCEPT ![p] = "ca_overlap"]
                     /\ UNCHANGED ret
    /\ UNCHANGED <<db, now, before>>

\* changed: the appointment is inserted before the overlap is reported
create_appointment_overlap_after_insert(p) ==
    /\ pc[p] = "ca_overlap"
    /\ IF has_overlap(req[p].staff_id, req[p].start_time, local[p].end_time, None)
       THEN /\ Finish(p, HTTPException(409,
                <<"Time slot overlaps another appointment for this staff member">>))
            /\ db' = insert_one("appointment",
                        [client_id |-> req[p].client_id,
                         staff_id |-> req[p].staff_id,
                         service_id |-> req[p].service_id,
                         start_time |-> req[p].start_time,
                         end_time |-> local[p].end_time,
                         status |-> "booked",
                         notes |-> None,
                         updated_at |-> None])
       ELSE /\ pc' = [pc EXCEPT ![p] = "ca_insert"]
            /\ UNCHANGED <<ret, db>>
    /\ UNCHANGED <<now, req, local, before>>

create_appointment_overlap(p) ==
    /\ pc[p] = "ca_overlap"
    /\ IF has_overlap(req[p].staff_id, req[p].start_time, local[p].end_time, None)
       THEN Finish(p, HTTPException(409,
                <<"Time slot overlaps another appointment for this staff member">>))
       ELSE /\ pc' = [pc EXCEPT ![p] = "ca_insert"]
            /\ UNCHANGED ret
    /\ UNCHANGED <<db, now, req, local, before>>

\* changed: the overlap query is repeated in the step that inserts
create_appointment_insert_rechecked(p) ==
    /\ pc[p] = "ca_insert"
    /\ Cardinality(DOMAIN db.appointment) < MaxAppointments
    /\ IF has_overlap(req[p].staff_id, req[p].start_time, local[p].end_time, None)
       THEN /\ Finish(p, HTTPException(409,
                <<"Time slot overlaps another appointment for this staff member">>))
            /\ UNCHANGED <<db, req, local>>
       ELSE \E n \in CreateNotesInputs :
            LET payload == Put(req[p], "notes", n)
                appt == [client_id |-> payload.client_id,
                         staff_id |-> payload.staff_id,
                         service_id |-> payload.service_id,
                         start_time |-> payload.start_time,
                         end_time |-> local[p].end_time,
                         status |-> "booked",
                         notes |-> payload.notes,
                         updated_at |-> None]
                new_id == str(NewId("appointment"))
                created == [k \in DOMAIN appt \cup {"_id"} |->
                               IF k = "_id" THEN ObjectId(new_id) ELSE appt[k]]
            IN  /\ req' = [req EXCEPT ![p] = payload]
                /\ db' = insert_one("appointment", appt)
                /\ local' = [local EXCEPT ![p].new_id = new_id]
                /\ Finish(p, Response(201, serialize_doc(created)))
    /\ UNCHANGED <<now, before>>

\* changed: the request's notes are not passed to Appointment(...)
create_appointment_insert_without_notes(p) ==
    /\ pc[p] = "ca_insert"
    /\ Cardinality(DOMAIN db.appointment) < MaxAppointments
    /\ \E n \in CreateNotesInputs :
        LET payload == Put(req[p], "notes", n)
            appt == [client_id |-> payload.client_id,
                     staff_id |-> payload.staff_id,
                     service_id |-> payload.service_id,
                     start_time |-> payload.start_time,
                     end_time |-> local[p].end_time,
                     status |-> "booked",
                     notes |-> None,
                     updated_at |-> None]
            new_id == str(NewId("appointment"))
            created == [k \in DOMAIN appt \cup {"_id"} |->
                           IF k = "_id" THEN ObjectId(new_id) ELSE appt[k]]
        IN  /\ req' = [req EXCEPT ![p] = payload]
            /\ db' = insert_one("appointment", appt)
            /\ local' = [local EXCEPT ![p].new_id = new_id]
            /\ Finish(p, Response(201, serialize_doc(created)))
    /\ UNCHANGED <<now, before>>

\* Appointment(...) is built, handed to create_document and read back
create_appointment_insert(p) ==
    /\ pc[p] = "ca_insert"
    /\ Cardinality(DOMAIN db.appointment) < MaxAppointments
    /\ \E n \in CreateNotesInputs :
        LET payload == Put(req[p], "notes", n)
            appt == [client_id |-> payload.client_id,
                     staff_id |-> payload.staff_id,
                     service_id |-> payload.service_id,
                     start_time |-> payload.start_time,
                     end_time |-> local[p].end_time,
                     status |-> "booked",
                     notes |-> payload.notes,
                     updated_at |-> None]
            new_id == str(NewId("appointment"))
            created == [k \in DOMAIN appt \cup {"_id"} |->
                           IF k = "_id" THEN ObjectId(new_id) ELSE appt[k]]
        IN  /\ req' = [req EXCEPT ![p] = payload]
            /\ db' = insert_one("appointment", appt)
            /\ local' = [local EXCEPT ![p].new_id = new_id]
            /\ Finish(p, Response(201, serialize_doc(created)))
    /\ UNCHANGED <<now, before>>

\* ------------------------------------------------ update_appointment_status
\* changed: the pattern on status is missing
StatusUpdateValid_any(payload) == TRUE

\* AppointmentStatusUpdate.status: pattern ^(booked|canceled|completed)$
StatusUpdateValid(payload) ==
    payload.status = None \/ payload.status[1] \in {"booked", "canceled", "completed"}

\* changed: status defaults to "booked" when the payload leaves it out
updates_of_default_status(payload) ==
    [k \in {"status"} \cup (IF payload.notes # None THEN {"notes"} ELSE {}) |->
        IF k = "status"
        THEN (IF payload.status # None THEN payload.status[1] ELSE "booked")
        ELSE payload.notes]

\* the $set document built from the payload: status when truthy, notes when
\* not None
updates_of(payload) ==
    [k \in (IF payload.status # None /\ payload.status[1] # "" THEN {"status"} ELSE {})
           \cup (IF payload.notes # None THEN {"notes"} ELSE {}) |->
        IF k = "status" THEN payload.status[1] ELSE payload.notes]

\* changed: the early return on an empty update is missing
no_updates_never(updates) == FALSE

\* `if not updates`: nothing to set
no_updates(updates) == DOMAIN updates = {}

\* the request arrives, its body is validated, and the appointment is looked
\* up; the fields of a valid body are read once the appointment is found
update_appointment_status_find(p) ==
    /\ pc[p] = "idle"
    /\ \/ \E body \in {b \in UpdateBodies : ~StatusUpdateValid(b)} :
            /\ req' = [req EXCEPT ![p] =
                          [op |-> "update_appointment_status", status |-> body.status]]
            /\ Finish(p, [kind |-> "ValidationError", status_code |-> 422])
       \/ \E a \in AppointmentIdInputs :
            LET path == [op |-> "update_appointment_status", appointment_id |-> a]
            IN  IF ~ObjectIdValid(a)
                THEN /\ req' = [req EXCEPT ![p] = path]
                     /\ Finish(p, [kind |-> "InvalidId", status_code |-> 500])
                ELSE LET doc == find_one("appointment", ObjectId(a))
                     IN  IF doc = None
                         THEN /\ req' = [req EXCEPT ![p] = path]
                              /\ Finish(p, HTTPException(404,
                                               <<"Appointment", "not found">>))
                         ELSE \E body \in {b \in UpdateBodies : StatusUpdateValid(b)} :
                              LET payload == Put(Put(path, "status", body.status),
                                                 "notes", body.notes)
                              IN  /\ req' = [req EXCEPT ![p] = payload]
                                  /\ IF no_updates(updates_of(payload))
                                     THEN Finish(p, Response(200, serialize_doc(doc[1])))
                                     ELSE /\ now < MaxClock
                                          /\ pc' = [pc EXCEPT ![p] = "ua_write"]
                                          /\ UNCHANGED ret
    /\ Arrive(p)
    /\ UNCHANGED <<db, now, local>>

\* changed: a status that blocks the calendar is refused when the appointment
\* overlaps another one of its staff_id
update_appointment_status_write_rechecked(p) ==
    /\ pc[p] = "ua_write"
    /\ now < MaxClock
    /\ LET o == ObjectId(req[p].appointment_id)
           set == updates_of(req[p])
           updates == [k \in DOMAIN set \cup {"updated_at"} |->
                          IF k = "updated_at" THEN Some(now) ELSE set[k]]
           written == update_one("appointment", o, updates)
           doc == [k \in DOMAIN written.appointment[o] \cup {"_id"} |->
                      IF k = "_id" THEN o ELSE written.appointment[o][k]]
       IN  IF /\ "status" \in DOMAIN set
              /\ set.status \in {"booked", "completed"}
              /\ has_overlap(db.appointment[o].staff_id,
                             db.appointment[o].start_time,
                             db.appointment[o].end_time,
                             Some(req[p].appointment_id))
           THEN /\ Finish(p, HTTPException(409,
                    <<"Time slot overlaps another appointment for this staff member">>))
                /\ UNCHANGED <<db, now>>
           ELSE /\ db' = written
                /\ now' = now + 1
                /\ Finish(p, Response(200, serialize_doc(doc)))
    /\ UNCHANGED <<req, local, before>>

\* changed: the $set is applied with an empty filter, to every appointment
update_appointment_status_write_unfiltered(p) ==
    /\ pc[p] = "ua_write"
    /\ now < MaxClock
    /\ LET o == ObjectId(req[p].appointment_id)
           set == updates_of(req[p])
           updates == [k \in DOMAIN set \cup {"updated_at"} |->
                          IF k = "updated_at" THEN Some(now) ELSE set[k]]
           written == [db EXCEPT !.appointment =
                          [a \in DOMAIN @ |->
                              [k \in DOMAIN @[a] \cup DOMAIN updates |->
                                  IF k \in DOMAIN updates THEN updates[k]
                                  ELSE @[a][k]]]]
           doc == [k \in DOMAIN written.appointment[o] \cup {"_id"} |->
                      IF k = "_id" THEN o ELSE written.appointment[o][k]]
       IN  /\ db' = written
           /\ Finish(p, Response(200, serialize_doc(doc)))
    /\ now' = now + 1
    /\ UNCHANGED <<req, local, before>>

\* updated_at is stamped with the clock, the fields are written and the
\* appointment is read back
update_appointment_status_write(p) ==
    /\ pc[p] = "ua_write"
    /\ now < MaxClock
    /\ LET o == ObjectId(req[p].appointment_id)
           set == updates_of(req[p])
           updates == [k \in DOMAIN set \cup {"updated_at"} |->
                          IF k = "updated_at" THEN Some(now) ELSE set[k]]
           written == update_one("appointment", o, updates)
           doc == [k \in DOMAIN written.appointment[o] \cup {"_id"} |->
                      IF k = "_id" THEN o ELSE written.appointment[o][k]]
       IN  /\ db' = written
           /\ Finish(p, Response(200, serialize_doc(doc)))
    /\ now' = now + 1
    /\ UNCHANGED <<req, local, before>>

\* --------------------------------------------------------- list appointments
\* changed: the staff_id filter is never added
list_filter_no_staff(day, staff_id) ==
    [k \in (IF day # None THEN {"start_time"} ELSE {}) |->
        [gte |-> day[1], lt |-> day[1] + MinutesPerDay]]

\* filt: the day's range on start_time `if date`, the staff_id `if staff_id`
list_filter(day, staff_id) ==
    [k \in (IF day # None THEN {"start_time"} ELSE {})
           \cup (IF staff_id # None THEN {"staff_id"} ELSE {}) |->
        IF k = "start_time"
        THEN [gte |-> day[1], lt |-> day[1] + MinutesPerDay]
        ELSE staff_id[1]]

list_appointments(p) ==
    /\ pc[p] = "idle"
    /\ \E date \in DateInputs :
        LET day == IF date # None THEN strptime(date[1], "%Y-%m-%d") ELSE None
            query == [op |-> "list_appointments", date |-> date]
        IN  IF date # None /\ day = None
            THEN /\ req' = [req EXCEPT ![p] = query]
                 /\ Finish(p, HTTPException(400,
                        <<"Invalid date format, expected YYYY-MM-DD">>))
            ELSE \E staff_id \in StaffFilterInputs :
                 \E docs \in sort("appointment",
                                  find("appointment", list_filter(day, staff_id)),
                                  "start_time") :
                    /\ req' = [req EXCEPT ![p] = Put(query, "staff_id", staff_id)]
                    /\ Finish(p, Response(200,
                           [i \in DOMAIN docs |->
                               serialize_doc(find_one("appointment", docs[i])[1])]))
    /\ Arrive(p)
    /\ UNCHANGED <<db, now, local>>

\* ------------------------------------------------------------ specification
\* the steps of create_appointment
Booking(p) ==
    \/ create_appointment_client(p)
    \/ create_appointment_staff(p)
    \/ create_appointment_service(p)
    \/ create_appointment_overlap(p)
    \/ create_appointment_insert(p)

\* the steps of update_appointment_status
Lifecycle(p) ==
    \/ update_appointment_status_find(p)
    \/ update_appointment_status_write(p)

Handler(p) ==
    \/ create_client(p)
    \/ create_staff(p)
    \/ create_service(p)
    \/ Booking(p)
    \/ Lifecycle(p)
    \/ respond(p)

\* one request at a time
Next == Handler("w1")

Spec == Init /\ [][Next]_vars

\* one request at a time, the list query among them
ListNext == Handler("w1") \/ list_appointments("w1")

ListSpec == Init /\ [][ListNext]_vars

\* bookings served concurrently by two workers
ConcHandler(p) ==
    \/ create_client(p)
    \/ create_staff(p)
    \/ create_service(p)
    \/ Booking(p)
    \/ respond(p)

ConcNext == \E p \in Procs : ConcHandler(p)

ConcSpec == Init /\ [][ConcNext]_vars

\* a step sets a canceled appointment back to booked or completed
Reactivation ==
    \E o \in DOMAIN db.appointment :
        /\ db.appointment[o].status = "canceled"
        /\ db'.appointment[o].status \in {"booked", "completed"}

\* one request at a time, so that each create_appointment runs from its
\* lookups to its insert with no other request in between, and no update
\* that reactivates a canceled appointment
AtomicNext ==
    \/ create_client("w1")
    \/ create_staff("w1")
    \/ create_service("w1")
    \/ Booking("w1")
    \/ update_appointment_status_find("w1")
    \/ (update_appointment_status_write("w1") /\ ~Reactivation)
    \/ respond("w1")

AtomicSpec == Init /\ [][AtomicNext]_vars

\* ------------------------------------------------------------- properties
Appts == DOMAIN db.appointment

Blocking(o) == db.appointment[o].status \in {"booked", "completed"}

\* the minutes of the half-open interval [start, end)
Minutes(start, end) == {m \in start .. (end - 1) : TRUE}

Window(o) == Minutes(db.appointment[o].start_time, db.appointment[o].end_time)

\* the identifier string names a stored document of the collection
Resolves(collection, _id) == ObjectIdValid(_id) /\ ObjectId(_id) \in DOMAIN db[collection]

IsNotFound(r, label) ==
    r.kind = "HTTPException" /\ r.status_code = 404 /\ r.detail = <<label, "not found">>

IsConflict(r) == r.kind = "HTTPException" /\ r.status_code = 409

IsOk(r) == r.kind = "response"

\* worker p has finished a create_appointment call
CreateDone(p) == pc[p] = "done" /\ req[p].op = "create_appointment"

\* worker p has finished a create_appointment call that got as far as the
\* overlap check
CreateDecided(p) == CreateDone(p) /\ (IsConflict(ret[p]) \/ IsOk(ret[p]))

\* the window that call asked for, from the request and the stored service
AskedEnd(p) ==
    req[p].start_time + db.service[ObjectId(req[p].service_id)].duration_minutes

AskedWindow(p) == Minutes(req[p].start_time, AskedEnd(p))

\* the stored appointments other than the one the call of p created
Others(p) == Appts \ (IF IsOk(ret[p]) THEN {ObjectId(ret[p].body.id)} ELSE {})

\* worker p has finished an update_appointment_status call that passed
\* validation of the body
UpdateDone(p) ==
    pc[p] = "done" /\ req[p].op = "update_appointment_status"
    /\ "appointment_id" \in DOMAIN req[p]

\* and that call found its appointment
UpdateFound(p) == UpdateDone(p) /\ "notes" \in DOMAIN req[p]

\* C1: no two distinct stored appointments with the same staff_id, both
\* booked or completed, have overlapping half-open intervals.
C1_NoDoubleBooking ==
    \A a \in Appts, b \in Appts :
        (a # b /\ db.appointment[a].staff_id = db.appointment[b].staff_id
              /\ Blocking(a) /\ Blocking(b))
        => Window(a) \cap Window(b) = {}

\* C2: a successful create_appointment with service S and start time T stores
\* and returns an appointment with start_time T and end_time T +
\* S.duration_minutes.
C2_EndTimeDerived ==
    \A p \in Procs :
        (CreateDone(p) /\ IsOk(ret[p])) =>
            LET stored == db.appointment[ObjectId(ret[p].body.id)]
            IN  /\ stored.start_time = req[p].start_time
                /\ stored.end_time = AskedEnd(p)
                /\ ret[p].body.start_time = isoformat(req[p].start_time)
                /\ ret[p].body.end_time = isoformat(AskedEnd(p))

C2_Witness ==
    \E p \in Procs :
        /\ CreateDone(p) /\ IsOk(ret[p])
        /\ req[p].start_time = MinDuration
        /\ db.service[ObjectId(req[p].service_id)].duration_minutes = 2 * MinDuration

\* C3: with all three references resolved, create_appointment fails with
\* Conflict exactly when some stored appointment of the same staff_id that is
\* booked or completed has start_time < new end_time and end_time > new
\* start_time; canceled appointments and other staff_ids never conflict.
C3_ConflictIff ==
    \A p \in Procs :
        CreateDecided(p) =>
            (IsConflict(ret[p]) <=>
                \E o \in Others(p) :
                    /\ db.appointment[o].staff_id = req[p].staff_id
                    /\ db.appointment[o].status \in {"booked", "completed"}
                    /\ db.appointment[o].start_time < AskedEnd(p)
                    /\ db.appointment[o].end_time > req[p].start_time)

C3_Witness ==
    \E p \in Procs :
        /\ CreateDone(p) /\ IsConflict(ret[p])
        /\ \E o \in Appts : db.appointment[o].status = "canceled"

\* C4: a create_appointment whose window only touches a blocking appointment
\* of the same staff (it starts where that one ends, or ends where that one
\* starts) and shares no minute with any blocking appointment succeeds.
C4_BackToBack ==
    \A p \in Procs :
        (/\ CreateDecided(p)
         /\ \E o \in Others(p) :
                /\ db.appointment[o].staff_id = req[p].staff_id
                /\ Blocking(o)
                /\ \/ db.appointment[o].end_time = req[p].start_time
                   \/ db.appointment[o].start_time = AskedEnd(p)
         /\ \A o \in Others(p) :
                (db.appointment[o].staff_id = req[p].staff_id /\ Blocking(o))
                => Window(o) \cap AskedWindow(p) = {})
        => IsOk(ret[p])

C4_Witness ==
    \E p \in Procs :
        /\ CreateDone(p) /\ IsOk(ret[p])
        /\ \E o \in Others(p) :
                /\ db.appointment[o].staff_id = req[p].staff_id
                /\ Blocking(o)
                /\ db.appointment[o].end_time = req[p].start_time

\* C5: once an appointment is canceled, a create_appointment for the same
\* staff and the same window succeeds, provided no other booked or completed
\* appointment of that staff shares a minute with the window.
C5_CancelFrees ==
    \A p \in Procs :
        (/\ CreateDecided(p)
         /\ \E o \in Others(p) :
                /\ db.appointment[o].staff_id = req[p].staff_id
                /\ db.appointment[o].status = "canceled"
                /\ db.appointment[o].start_time = req[p].start_time
                /\ db.appointment[o].end_time = AskedEnd(p)
         /\ \A o \in Others(p) :
                (db.appointment[o].staff_id = req[p].staff_id /\ Blocking(o))
                => Window(o) \cap AskedWindow(p) = {})
        => IsOk(ret[p])

C5_Witness ==
    \E p \in Procs :
        /\ CreateDone(p) /\ IsOk(ret[p])
        /\ \E o \in Others(p) :
                /\ db.appointment[o].staff_id = req[p].staff_id
                /\ db.appointment[o].status = "canceled"
                /\ db.appointment[o].start_time = req[p].start_time
                /\ db.appointment[o].end_time = AskedEnd(p)

\* C6: a create_appointment that fails, with NotFound or Conflict, has
\* written nothing: the appointment collection is as it was when the request
\* arrived.
C6_FailedCreateWritesNothing ==
    \A p \in Procs :
        (CreateDone(p) /\ ~IsOk(ret[p])) =>
            /\ ret[p].kind = "HTTPException"
            /\ db.appointment = before[p]

C6_Witness ==
    \E p \in Procs :
        /\ CreateDone(p) /\ IsConflict(ret[p])
        /\ before[p] # <<>>

\* C7: create_appointment reports the first failing check in the order
\* client, staff, service, overlap.
C7_ErrorPrecedence ==
    \A p \in Procs :
        CreateDone(p) =>
            LET r == req[p]
                cOK == Resolves("client", r.client_id)
                sRead == "staff_id" \in DOMAIN r
                sOK == sRead /\ Resolves("staff", r.staff_id)
                vRead == "service_id" \in DOMAIN r
                vOK == vRead /\ Resolves("service", r.service_id)
            IN  /\ ~cOK <=> IsNotFound(ret[p], "Client")
                /\ (cOK /\ ~sOK) <=> IsNotFound(ret[p], "Staff")
                /\ (cOK /\ sOK /\ ~vOK) <=> IsNotFound(ret[p], "Service")
                /\ IsConflict(ret[p]) => (cOK /\ sOK /\ vOK)
                /\ ~cOK => ~sRead
                /\ ~sOK => ~vRead

C7_Witness ==
    \E p \in Procs :
        /\ CreateDone(p) /\ IsNotFound(ret[p], "Service")
        /\ ~ObjectIdValid(req[p].service_id)

\* C8: the write of an update that supplies only notes changes, of the
\* addressed appointment, notes to the supplied value and updated_at to the
\* current time, and nothing else in the collection.
C8_NotesOnlyUpdate ==
    [][\A p \in Procs :
        (pc[p] = "ua_write" /\ pc'[p] # "ua_write" /\ req[p].status = None) =>
            LET o == ObjectId(req[p].appointment_id)
            IN  /\ DOMAIN db'.appointment = DOMAIN db.appointment
                /\ \A x \in Appts \ {o} : db'.appointment[x] = db.appointment[x]
                /\ db'.appointment[o] =
                      [db.appointment[o] EXCEPT !.notes = req[p].notes,
                                                !.updated_at = Some(now)]]_vars

C8_Witness ==
    \E p \in Procs :
        /\ UpdateFound(p) /\ IsOk(ret[p])
        /\ req[p].status = None /\ req[p].notes # None
        /\ ret[p].body.status = "canceled"
        /\ ret[p].body.updated_at = Some(isoformat(1))
        /\ before[p][ObjectId(req[p].appointment_id)].notes # req[p].notes

\* C9: an update of an existing appointment that supplies neither status nor
\* notes returns the stored record and writes nothing.
C9_EmptyUpdateIsNoOp ==
    \A p \in Procs :
        (/\ UpdateDone(p)
         /\ Resolves("appointment", req[p].appointment_id)
         /\ req[p].status = None /\ req[p].notes = None)
        => LET o == ObjectId(req[p].appointment_id)
           IN  /\ db.appointment = before[p]
               /\ ret[p] = Response(200,
                     [k \in {"id", "client_id", "staff_id", "service_id", "start_time",
                             "end_time", "status", "notes", "updated_at"} |->
                        IF k = "id" THEN 2 * o - 1
                        ELSE IF k \in {"start_time", "end_time"}
                        THEN isoformat(before[p][o][k])
                        ELSE IF k = "updated_at" /\ before[p][o][k] # None
                        THEN Some(isoformat(before[p][o][k][1]))
                        ELSE before[p][o][k]])

C9_Witness ==
    \E p \in Procs :
        /\ UpdateFound(p) /\ IsOk(ret[p])
        /\ req[p].status = None /\ req[p].notes = None
        /\ ret[p].body.updated_at # None

\* C10: an update whose appointment_id does not resolve, absent or
\* malformed, fails with NotFound(Appointment) and changes no appointment.
C10_UnresolvedUpdateNotFound ==
    \A p \in Procs :
        (UpdateDone(p) /\ ~Resolves("appointment", req[p].appointment_id))
        => /\ IsNotFound(ret[p], "Appointment")
           /\ db.appointment = before[p]

\* the statuses a stored appointment may have
StatusOk(o) == db.appointment[o].status \in Statuses

\* C11: an update whose status is not booked, canceled or completed fails
\* with ValidationError and writes nothing; every stored appointment's status
\* is one of the three.
C11_StatusValidated ==
    /\ \A p \in Procs :
        (/\ pc[p] = "done" /\ req[p].op = "update_appointment_status"
         /\ "status" \in DOMAIN req[p]
         /\ req[p].status # None /\ req[p].status[1] \notin Statuses)
        => /\ ret[p].kind = "ValidationError"
           /\ db.appointment = before[p]
    /\ \A o \in Appts : StatusOk(o)

C11_Witness ==
    \E p \in Procs :
        /\ pc[p] = "done" /\ ret[p].kind = "ValidationError"
        /\ req[p].op = "update_appointment_status"
        /\ req[p].status = Some("done")
        /\ \E o \in Appts : db.appointment[o].status = "completed"

\* C12: while every stored service has 5 <= duration_minutes <= 480, every
\* stored appointment has end_time > start_time.
C12_EndAfterStart ==
    (\A v \in DOMAIN db.service : ServiceValid(db.service[v].duration_minutes))
    => \A o \in Appts :
        db.appointment[o].end_time > db.appointment[o].start_time

C12_Witness ==
    /\ \E v \in DOMAIN db.service :
        db.service[v].duration_minutes = 2 * MinDuration
    /\ \E o \in Appts :
        db.appointment[o].end_time =
            db.appointment[o].start_time + 2 * MinDuration

ListDone(p) ==
    pc[p] = "done" /\ req[p].op = "list_appointments" /\ ret[p].kind = "response"

\* the appointments the query of worker p asks for
Listed(p) ==
    {o \in Appts :
        /\ req[p].date # None =>
            db.appointment[o].start_time \in
                (req[p].date[1].day * MinutesPerDay) ..
                ((req[p].date[1].day + 1) * MinutesPerDay - 1)
        /\ req[p].staff_id # None =>
            db.appointment[o].staff_id = req[p].staff_id[1]}

\* C13: list_appointments returns exactly the stored appointments, of any
\* status, that start on the given day (when a day is given) and have the
\* given staff_id (when one is given), each once, as stored, in ascending
\* order of start_time.
C13_ListMatchesFilters ==
    \A p \in Procs :
        ListDone(p) =>
            LET body == ret[p].body
            IN  /\ ret[p].status_code = 200
                /\ {body[i].id : i \in DOMAIN body} = {str(o) : o \in Listed(p)}
                /\ Len(body) = Cardinality(Listed(p))
                /\ \A i \in DOMAIN body :
                    body[i] = serialize_doc(
                        find_one("appointment", ObjectId(body[i].id))[1])
                /\ \A i, j \in DOMAIN body :
                    i < j => db.appointment[ObjectId(body[i].id)].start_time
                             <= db.appointment[ObjectId(body[j].id)].start_time

C13_Witness ==
    \E p \in Procs :
        /\ ListDone(p)
        /\ req[p].date # None /\ req[p].staff_id # None
        /\ Len(ret[p].body) = 1
        /\ Cardinality(Appts) = 2
        /\ \E o \in Appts : db.appointment[o].status = "canceled"

\* two stored appointments double-book a staff_id
DoubleBooked(a, b) ==
    /\ a # b
    /\ db.appointment[a].staff_id = db.appointment[b].staff_id
    /\ db.appointment[a].status = "booked" /\ db.appointment[b].status = "booked"
    /\ Window(a) \cap Window(b) # {}

\* C14: the overlap check and the insert of create_appointment are separate
\* steps: a worker that has passed the check inserts its appointment as booked
\* whatever has been stored since, so two concurrent calls for one staff_id
\* with overlapping windows can both be stored.
C14_CheckThenAct ==
    [][\A p \in Procs :
        (pc[p] = "ca_insert" /\ pc'[p] = "done")
        => /\ IsOk(ret'[p])
           /\ DOMAIN db'.appointment = Appts \cup {ObjectId(ret'[p].body.id)}
           /\ ObjectId(ret'[p].body.id) \notin Appts
           /\ LET new == db'.appointment[ObjectId(ret'[p].body.id)]
              IN  /\ new.status = "booked"
                  /\ new.staff_id = req[p].staff_id
                  /\ new.start_time = req[p].start_time
                  /\ new.end_time = local[p].end_time]_vars

\* both workers' calls succeeded and their appointments double-book the staff_id
C14_Witness ==
    /\ \A p \in Procs : CreateDone(p) /\ IsOk(ret[p])
    /\ DoubleBooked(ObjectId(ret["w1"].body.id), ObjectId(ret["w2"].body.id))

\* C15: an update of an existing appointment that supplies a status of the
\* enumeration succeeds and stores that status, whatever the current status
\* and the other appointments are; no update ends in Conflict.
C15_StatusChangeUnchecked ==
    \A p \in Procs :
        /\ (UpdateFound(p) /\ req[p].status # None)
           => /\ IsOk(ret[p]) /\ ret[p].status_code = 200
              /\ db.appointment[ObjectId(req[p].appointment_id)].status
                     = req[p].status[1]
              /\ ret[p].body.status = req[p].status[1]
        /\ (pc[p] = "done" /\ req[p].op = "update_appointment_status")
           => ~IsConflict(ret[p])

\* a canceled appointment was set back to booked although another blocking
\* appointment of its staff_id overlaps it
C15_Witness ==
    \E p \in Procs :
        /\ UpdateFound(p) /\ req[p].status = Some("booked")
        /\ LET o == ObjectId(req[p].appointment_id)
           IN  /\ before[p][o].status = "canceled"
               /\ db.appointment[o].status = "booked"
               /\ \E b \in Appts \ {o} :
                    /\ Blocking(b)
                    /\ db.appointment[b].staff_id = db.appointment[o].staff_id
                    /\ Window(b) \cap Window(o) # {}

\* C16: a successful create_appointment adds exactly one appointment, under
\* an identifier not in use before, with status booked, the request's
\* client_id, staff_id, service_id, start_time and notes and the derived
\* end_time; the appointments stored before are unchanged; the response is the
\* record as stored.
C16_CreateWritesOne ==
    \A p \in Procs :
        (CreateDone(p) /\ IsOk(ret[p])) =>
            LET new == ObjectId(ret[p].body.id)
            IN  /\ new \notin DOMAIN before[p]
                /\ Appts = DOMAIN before[p] \cup {new}
                /\ \A o \in DOMAIN before[p] : db.appointment[o] = before[p][o]
                /\ db.appointment[new].status = "booked"
                /\ db.appointment[new].client_id = req[p].client_id
                /\ db.appointment[new].staff_id = req[p].staff_id
                /\ db.appointment[new].service_id = req[p].service_id
                /\ db.appointment[new].start_time = req[p].start_time
                /\ db.appointment[new].notes = req[p].notes
                /\ db.appointment[new].end_time = AskedEnd(p)
                /\ \A k \in DOMAIN db.appointment[new] :
                    ret[p].body[k] =
                        IF k \in {"start_time", "end_time"}
                        THEN isoformat(db.appointment[new][k])
                        ELSE db.appointment[new][k]

C16_Witness ==
    \E p \in Procs :
        /\ CreateDone(p) /\ IsOk(ret[p])
        /\ before[p] # <<>>
        /\ db.appointment[ObjectId(ret[p].body.id)].notes = Some("gel")
        /\ ObjectId(ret[p].body.id) = Cardinality(DOMAIN before[p]) + 1

SchedulingFields == {"client_id", "staff_id", "service_id", "start_time", "end_time"}

\* C17: no step removes an appointment or changes the client_id, staff_id,
\* service_id, start_time or end_time of a stored one; the write of an update
\* changes at most status, notes and updated_at of the appointment it
\* addresses, and no other appointment.
C17_AppendOnlySchedule ==
    [][/\ Appts \subseteq DOMAIN db'.appointment
       /\ \A o \in Appts : \A k \in SchedulingFields :
            db'.appointment[o][k] = db.appointment[o][k]
       /\ \A p \in Procs :
            (req[p].op = "update_appointment_status" /\ pc'[p] = "done")
            => /\ DOMAIN db'.appointment = Appts
               /\ \A o \in Appts :
                    /\ DOMAIN db'.appointment[o] = DOMAIN db.appointment[o]
                    /\ \A k \in DOMAIN db.appointment[o] :
                        db'.appointment[o][k] # db.appointment[o][k]
                        => /\ k \in {"status", "notes", "updated_at"}
                           /\ pc[p] = "ua_write"
                           /\ o = ObjectId(req[p].appointment_id)]_vars

\* an update has changed the status of one of two stored appointments
C17_Witness ==
    \E p \in Procs :
        /\ UpdateFound(p)
        /\ Cardinality(Appts) = 2
        /\ LET o == ObjectId(req[p].appointment_id)
           IN  /\ db.appointment[o].status # before[p][o].status
               /\ db.appointment[o].updated_at # None

\* the lookups of create_appointment, in the order they are made
Lookups ==
    <<[field |-> "client_id", collection |-> "client", label |-> "Client"],
      [field |-> "staff_id", collection |-> "staff", label |-> "Staff"],
      [field |-> "service_id", collection |-> "service", label |-> "Service"]>>

\* the lookups the call of worker p has made so far
Made(p) == {i \in DOMAIN Lookups : Lookups[i].field \in DOMAIN req[p]}

\* C18: each lookup of create_appointment treats a malformed identifier as it
\* treats a well-formed one that names no record: the call ends in NotFound
\* with the lookup's label, and in no other kind of error; a call gets past a
\* lookup only when the identifier resolves, and then with the stored record.
C18_MalformedIsAbsent ==
    \A p \in Procs :
        req[p].op = "create_appointment" =>
            \A i \in Made(p) :
                LET l == Lookups[i]
                    _id == req[p][l.field]
                    last == i + 1 \notin Made(p)
                    passed == ~last \/ pc[p] # "done" \/ ~IsNotFound(ret[p], l.label)
                    found == ensure_exists(l.collection, _id, l.label)
                IN  /\ ~Resolves(l.collection, _id)
                       => /\ last /\ pc[p] = "done"
                          /\ ret[p] = [kind |-> "HTTPException", status_code |-> 404,
                                       detail |-> <<l.label, "not found">>]
                    /\ passed => Resolves(l.collection, _id)
                    /\ (passed /\ last)
                       => /\ ~found.raised
                          /\ found.doc["_id"] = ObjectId(_id)
                          /\ \A k \in DOMAIN db[l.collection][ObjectId(_id)] :
                                found.doc[k] = db[l.collection][ObjectId(_id)][k]

\* a call with a malformed staff_id ended as one with an absent staff_id does
C18_Witness ==
    \E p \in Procs :
        /\ CreateDone(p) /\ Made(p) = {1, 2}
        /\ ~ObjectIdValid(req[p].staff_id)
        /\ IsNotFound(ret[p], "Staff")
        /\ db.staff # <<>>

\* the call of worker p has the arguments of its overlap query at hand
OverlapAsked(p) ==
    req[p].op = "create_appointment" /\ "start_time" \in DOMAIN req[p]

\* C19: has_overlap(staff_id, start, end, exclude_id) is true exactly when
\* some stored appointment other than exclude_id (when given) has that
\* staff_id, status booked or completed, start_time < end and end_time > start;
\* the step that evaluates it changes no stored record.
C19_OverlapQuery ==
    /\ [](\A p \in Procs :
            OverlapAsked(p) =>
                \A x \in ExcludeIdInputs :
                    has_overlap(req[p].staff_id, req[p].start_time,
                                local[p].end_time, x)
                    <=> \E o \in Appts :
                            /\ x # None => str(o) # x[1]
                            /\ db.appointment[o].staff_id = req[p].staff_id
                            /\ Blocking(o)
                            /\ db.appointment[o].start_time < local[p].end_time
                            /\ db.appointment[o].end_time > req[p].start_time)
    /\ [][\A p \in Procs :
            (pc[p] = "ca_overlap" /\ pc'[p] # "ca_overlap") => db' = db]_vars

\* the query of a refused call matches one stored appointment only, so that
\* excluding it changes the answer
C19_Witness ==
    \E p \in Procs :
        /\ CreateDone(p) /\ IsConflict(ret[p])
        /\ Cardinality({o \in Appts :
                /\ db.appointment[o].staff_id = req[p].staff_id
                /\ Blocking(o)
                /\ Window(o) \cap AskedWindow(p) # {}}) = 1
        /\ Cardinality(Appts) = 2

====
